---- MODULE Spec2Model ----
(***************************************************************************)
(* A model of the DSP test bench: the oscillator channels (input.rs), the  *)
(* audio callback with its command/event ring buffers and the capture     *)
(* buffer (output.rs), and the analysis pass of the UI thread (lib.rs).    *)
(*                                                                         *)
(* Numbers.  f32 values are modelled as exact fixed-point integers:        *)
(*   - phase, frequency, scale, offset, pulse width, volume: units 1/Den   *)
(*   - a sample returned by process(): units 1/(Den*Den)                   *)
(*   - a device slot (volume * sample): units 1/(Den*Den*Den)              *)
(* so that scale * sample + offset is computed without rounding.           *)
(***************************************************************************)
EXTENDS Integers, Sequences, FiniteSets, TLC

VARIABLES
    \* ---- oscillator bench (SpecOsc): one input::Channel driven directly
    chan,           \* the input::Channel under test
    twin,           \* the same channel, fed the same calls, never disabled
    ret,            \* what the last process() call on chan returned
    twinRet,        \* what the last process() call on twin returned
    prevPhase,      \* chan.phase before the last process() call
    lastOp,         \* "init" | "process" | "command"
    freqOk,         \* TRUE while frequency has stayed inside (0,1)
    still,          \* the same channel, fed the same commands, never processed
    \* ---- the running system (Spec): audio thread, UI thread, shared state
    input_channels,     \* callback's [input::Channel; IN]
    output_channels,    \* callback's [output::Channel; OUT]
    module_values,      \* Through::values of the module under test
    message_queue,      \* ring buffer UI -> callback of ControlMessage
    event_queue,        \* ring buffer callback -> UI of input::Event
    output_buffer,      \* Arc<Mutex<OutputBuffer>>: buffer, index, counter
    mutex,              \* who holds the capture-buffer lock: "free" | "audio" | "ui"
    device_frame,       \* the device frame written last: <<left, right>>
    cb,                 \* audio callback: position and locals
    ui,                 \* UI thread: position and locals of update()
    input_models,       \* input::Widget::models
    output_models,      \* output::Widget::models
    \* ---- history of the run (not program state)
    stamps,             \* per channel and slot: number of the frame stored there
    frames_out,         \* module outputs of every frame so far, in order
    pushed,             \* number of messages pushed successfully
    applied,            \* the messages the callback applied, in order
    log,                \* when things happened, counted in frames (see LogNew)
    \* ---- analysis bench (SpecAnalysis): process_output_buffer driven directly
    context,            \* the fields of Context the analysis works on
    pass,               \* history: number of passes; peak and dt of the last one
    \* ---- search bench (SpecRefine): the unwrap search run step by step
    search              \* the locals of the loop of lines 183-200, and its result

\* ------------------------------------------------------------------ bounds

\* Resolution of the fixed-point grid: 1.0 is Den = 2 * HalfDen, 0.5 is HalfDen.
HalfDen == 2

Den == 2 * HalfDen

\* Frames one run of the system processes in all.
MaxFrames == 5

\* Largest data block (in frames) the device hands to the callback.
MaxBlock == 2

\* Widget interactions of one run.
MaxPush == 1

\* Resolution of a norm: 1.0 of the displayed spectrum is NormOne.
NormOne == 4

\* Calls of process_output_buffer in one run of the analysis bench.
MaxPasses == 2

\* Frames the callback stores between two passes of the analysis bench.
MaxDt == 2

\* Largest number of frames between two passes that the search bench tries.
MaxSearchDt == 64

\* Frames one run of the routing bench processes.
RouteFrames == 6

\* The same two bounds for the runs checked under fairness.
LiveFrames == 3

LivePush == 1

\* Widget interactions of the runs that fill the message queue.
QueuePush == 3

One == Den
SampleOne == Den * Den

\* ------------------------------------------------------- input.rs: Channel

WaveKinds == {"Sine", "RampUp", "RampDown", "Square", "Const"}

\* enum Wave; only Square carries a pulse width
Wave(kind, pw) == [kind |-> kind, pw |-> IF kind = "Square" THEN pw ELSE 0]

Waves == {Wave(k, 0) : k \in WaveKinds \ {"Square"}}
            \cup {Wave("Square", p) : p \in 0..One}

\* frequency 0.0022 of Channel::new, rounded up to the grid's smallest step
DefaultFrequency == 1

\* input::Channel::new
InputChannelNew ==
    [wave |-> Wave("Sine", 0), phase |-> 0, frequency |-> DefaultFrequency,
     scale |-> One, offset |-> 0, enabled |-> TRUE]

InputCommandTypes ==
    {"SetWave", "SetFrequency", "SetScale", "SetOffset", "SetEnabled", "SetDisabled"}

\* enum input::Command, as a record of one shape
InputCommand(type, wave, value) == [type |-> type, wave |-> wave, value |-> value]

\* handle_command with a SetFrequency that also restarts the oscillator
InputHandleCommandRestarts(ch, command) ==
    CASE command.type = "SetWave"      -> [ch EXCEPT !.wave = command.wave]
      [] command.type = "SetFrequency" -> [ch EXCEPT !.frequency = command.value,
                                                     !.phase = 0]
      [] command.type = "SetScale"     -> [ch EXCEPT !.scale = command.value]
      [] command.type = "SetOffset"    -> [ch EXCEPT !.offset = command.value]
      [] command.type = "SetEnabled"   -> [ch EXCEPT !.enabled = TRUE]
      [] command.type = "SetDisabled"  -> [ch EXCEPT !.enabled = FALSE]

\* input::Channel::handle_command
InputHandleCommand(ch, command) ==
    CASE command.type = "SetWave"      -> [ch EXCEPT !.wave = command.wave]
      [] command.type = "SetFrequency" -> [ch EXCEPT !.frequency = command.value]
      [] command.type = "SetScale"     -> [ch EXCEPT !.scale = command.value]
      [] command.type = "SetOffset"    -> [ch EXCEPT !.offset = command.value]
      [] command.type = "SetEnabled"   -> [ch EXCEPT !.enabled = TRUE]
      [] command.type = "SetDisabled"  -> [ch EXCEPT !.enabled = FALSE]

\* (2.0 * PI * phase).sin() in units 1/Den: the parabola through the zeros and
\* extrema of the sine, exact at the quarter points, truncated to the grid
Sin2Pi(phase) ==
    LET half == IF 2 * phase <= One THEN phase ELSE phase - (One \div 2)
        arc  == (8 * half * (One - 2 * half)) \div One
    IN  IF 2 * phase <= One THEN arc ELSE 0 - arc

\* AdvancePhase with the wrap test written > instead of >=
AdvancePhaseWrapsLate(phase, frequency) ==
    LET p == phase + frequency
    IN  IF p > One THEN p - One ELSE p

\* process(), lines 80-83: advance the phase, wrap by one subtraction
AdvancePhase(phase, frequency) ==
    LET p == phase + frequency
    IN  IF p >= One THEN p - One ELSE p

\* WaveSample with the pulse test written <= instead of <
WaveSampleInclusive(wave, phase) ==
    CASE wave.kind = "Sine"     -> Sin2Pi(phase)
      [] wave.kind = "RampUp"   -> 2 * phase - One
      [] wave.kind = "RampDown" -> One - 2 * phase
      [] wave.kind = "Square"   -> IF phase <= wave.pw THEN One ELSE 0 - One
      [] wave.kind = "Const"    -> 0

\* process(), lines 89-104: the waveform at `phase`, units 1/Den
WaveSample(wave, phase) ==
    CASE wave.kind = "Sine"     -> Sin2Pi(phase)
      [] wave.kind = "RampUp"   -> 2 * phase - One
      [] wave.kind = "RampDown" -> One - 2 * phase
      [] wave.kind = "Square"   -> IF phase < wave.pw THEN One ELSE 0 - One
      [] wave.kind = "Const"    -> 0

\* process(), lines 85-87 and 106: the value returned, units 1/(Den*Den)
ProcessOutput(ch, phase) ==
    IF ~ch.enabled
        THEN 0
        ELSE ch.scale * WaveSample(ch.wave, phase) + ch.offset * One

\* Process with the early return of a disabled channel moved before the
\* phase advance
ProcessReturnsFirst(ch) ==
    LET phase == AdvancePhase(ch.phase, ch.frequency)
    IN  IF ~ch.enabled
            THEN [ch |-> ch, out |-> 0]
            ELSE [ch |-> [ch EXCEPT !.phase = phase], out |-> ProcessOutput(ch, phase)]

\* Process with the advanced phase stored in the wrong field
ProcessAssignsFrequency(ch) ==
    LET phase == AdvancePhase(ch.phase, ch.frequency)
    IN  [ch |-> [ch EXCEPT !.frequency = phase], out |-> ProcessOutput(ch, phase)]

\* input::Channel::process: the channel after the call and the value returned
Process(ch) ==
    LET phase == AdvancePhase(ch.phase, ch.frequency)
    IN  [ch |-> [ch EXCEPT !.phase = phase], out |-> ProcessOutput(ch, phase)]

\* ------------------------------------------------------- the running system

\* the variables of the benches, which the running system leaves alone
benchVars == <<chan, twin, ret, twinRet, prevPhase, lastOp, freqOk, still, context, pass,
               search>>

\* the variables of the running system
sysVars == <<input_channels, output_channels, module_values, message_queue,
             event_queue, output_buffer, mutex, device_frame, cb, ui,
             input_models, output_models, stamps, frames_out, pushed, applied, log>>

\* const generics IN and OUT of Through::<2>: two inputs, two outputs
\* (IN is a reserved word here)
N_IN == 2

OUT == 2

\* BUFFER_SIZE (8192), scaled: a power of two, a multiple of the event interval
SIZE == 4

\* EVENT_UPDATE_INTERVAL (1024), scaled
EVENT_UPDATE_INTERVAL == 2

\* RINGBUFFER_CAPACITY (64), scaled
RINGBUFFER_CAPACITY == 2

\* Frames of the runs that fill the message queue: those of one snapshot.
QueueFrames == EVENT_UPDATE_INTERVAL

Inputs == 0..(N_IN - 1)
Outputs == 0..(OUT - 1)
Slots == 0..(SIZE - 1)

\* ------------------------------------------------------ output.rs: Channel

OutputMaps == {"Both", "Left", "Right"}

\* output::Channel::new
OutputChannelNew == [output_map |-> "Both", volume |-> HalfDen, enabled |-> TRUE]

\* enum output::Command, as a record of one shape
OutputCommand(type, map, value) == [type |-> type, map |-> map, value |-> value]

\* output::Channel::handle_command
OutputHandleCommand(ch, command) ==
    CASE command.type = "SetMap"      -> [ch EXCEPT !.output_map = command.map]
      [] command.type = "SetVolume"   -> [ch EXCEPT !.volume = command.value]
      [] command.type = "SetEnabled"  -> [ch EXCEPT !.enabled = TRUE]
      [] command.type = "SetDisabled" -> [ch EXCEPT !.enabled = FALSE]

\* enum ControlMessage; id numbers the successful pushes (history only)
ControlMessage(kind, channel, command, id) ==
    [kind |-> kind, channel |-> channel, command |-> command, id |-> id]

\* OutputBuffer::new
OutputBufferNew ==
    [buffer |-> [c \in Outputs |-> [k \in Slots |-> 0]], index |-> 0, counter |-> 0]

\* ------------------------------------------------------ rtrb ring buffers

\* Producer::push: Ok (the queue with the value appended) or Err(Full)
PushOk(queue) == Len(queue) < RINGBUFFER_CAPACITY

\* Push making room in a full queue by dropping the oldest value
PushDropsOldest(queue, value) ==
    IF PushOk(queue) THEN Append(queue, value) ELSE Append(Tail(queue), value)

Push(queue, value) == IF PushOk(queue) THEN Append(queue, value) ELSE queue

\* Consumer::pop: the oldest value; Err(Empty) when there is none
PopOk(queue) == Len(queue) > 0

\* PopValue handing out the newest value instead of the oldest
PopValueNewest(queue) == queue[Len(queue)]

PopValue(queue) == Head(queue)

PopRest(queue) == Tail(queue)

\* ------------------------------------------------- std::sync::Mutex::lock

\* a lock that excludes nobody
CanLockAlways == TRUE

\* lock() returns once nobody holds the mutex
CanLock == mutex = "free"

\* ------------------------------------------------- bin/test.rs: Through

\* Through::map_inputs
MapInputs(inputs) == inputs

\* MapOutputs with the values copied out in reverse order
MapOutputsReversed(values) == [i \in Outputs |-> values[OUT - 1 - i]]

\* Through::map_outputs
MapOutputs(values) == values

\* ------------------------------------------- output.rs: the audio callback

\* lines 131-136: one popped message applied to the channel it addresses
ApplyToInputs(channels, message) ==
    IF message.kind = "InputControl"
        THEN [channels EXCEPT ![message.channel] =
                  InputHandleCommand(channels[message.channel], message.command)]
        ELSE channels

ApplyToOutputs(channels, message) ==
    IF message.kind = "OutputControl"
        THEN [channels EXCEPT ![message.channel] =
                  OutputHandleCommand(channels[message.channel], message.command)]
        ELSE channels

\* Mix with = written for +=: a channel overwrites what the channels before
\* it put into the slot
RECURSIVE MixOverwrites(_, _, _, _)
MixOverwrites(channels, outputs, side, i) ==
    IF i = OUT
        THEN 0
        ELSE IF \E j \in (i + 1)..(OUT - 1) :
                    channels[j].enabled /\ channels[j].output_map \in {"Both", side}
                 THEN MixOverwrites(channels, outputs, side, i + 1)
                 ELSE IF channels[i].enabled /\ channels[i].output_map \in {"Both", side}
                          THEN channels[i].volume * outputs[i]
                          ELSE 0

\* lines 154-174: what the enabled output channels add into device slot `side`
RECURSIVE Mix(_, _, _, _)
Mix(channels, outputs, side, i) ==
    IF i = OUT
        THEN 0
        ELSE (IF channels[i].enabled /\ channels[i].output_map \in {"Both", side}
                  THEN channels[i].volume * outputs[i]
                  ELSE 0)
             + Mix(channels, outputs, side, i + 1)

\* NextIndex without the wrap
NextIndexUnwrapped(index) == index + 1

\* line 181: the slot after `index` in the ring
NextIndex(index) == (index + 1) % SIZE

\* line 186: the test that decides whether a snapshot is pushed
EventDue(index) == index % EVENT_UPDATE_INTERVAL = 0

CbIdle == [pc |-> "idle", frames |-> 0, outputs |-> [c \in Outputs |-> 0], i |-> 0]

\* the device calls the callback with a block of n frames
CallbackStart(maxFrames) ==
    /\ cb.pc = "idle"
    /\ \E n \in 1..MaxBlock :
        /\ Len(frames_out) + n <= maxFrames
        /\ cb' = [cb EXCEPT !.pc = "drain", !.frames = n]
    /\ UNCHANGED <<input_channels, output_channels, module_values, message_queue,
                   event_queue, output_buffer, mutex, device_frame, ui,
                   input_models, output_models, stamps, frames_out, pushed, applied>>
    /\ log' = [log EXCEPT !.start_pushed = pushed]
    /\ UNCHANGED benchVars

\* lines 129-138: pop one message and apply it
CallbackPop ==
    /\ cb.pc = "drain"
    /\ PopOk(message_queue)
    /\ input_channels' = ApplyToInputs(input_channels, PopValue(message_queue))
    /\ output_channels' = ApplyToOutputs(output_channels, PopValue(message_queue))
    /\ message_queue' = PopRest(message_queue)
    /\ applied' = Append(applied, PopValue(message_queue))
    /\ UNCHANGED <<module_values, event_queue, output_buffer, mutex, device_frame,
                   cb, ui, input_models, output_models, stamps, frames_out, pushed>>
    /\ log' = [log EXCEPT !.applied_at = Append(log.applied_at, Len(frames_out))]
    /\ UNCHANGED benchVars

\* CallbackDrained with a drain loop that pops at most once: it may end
\* with messages still queued
CallbackDrainedEarly ==
    /\ cb.pc = "drain"
    /\ (~PopOk(message_queue) \/ Len(applied) > 0)
    /\ cb' = [cb EXCEPT !.pc = "lock"]
    /\ UNCHANGED <<input_channels, output_channels, module_values, message_queue,
                   event_queue, output_buffer, mutex, device_frame, ui,
                   input_models, output_models, stamps, frames_out, pushed, applied, log>>
    /\ UNCHANGED benchVars

\* line 129: pop() fails on the empty queue and the drain loop ends
CallbackDrained ==
    /\ cb.pc = "drain"
    /\ ~PopOk(message_queue)
    /\ cb' = [cb EXCEPT !.pc = "lock"]
    /\ UNCHANGED <<input_channels, output_channels, module_values, message_queue,
                   event_queue, output_buffer, mutex, device_frame, ui,
                   input_models, output_models, stamps, frames_out, pushed, applied, log>>
    /\ UNCHANGED benchVars

\* line 140: output_buffer.lock()
CallbackLock ==
    /\ cb.pc = "lock"
    /\ CanLock
    /\ mutex' = "audio"
    /\ cb' = [cb EXCEPT !.pc = "frame"]
    /\ UNCHANGED <<input_channels, output_channels, module_values, message_queue,
                   event_queue, output_buffer, device_frame, ui,
                   input_models, output_models, stamps, frames_out, pushed, applied, log>>
    /\ UNCHANGED benchVars

\* lines 143-174: one frame synthesized, passed through the module and mixed
\* into the device frame
CallbackFrame ==
    /\ cb.pc = "frame"
    /\ cb.frames > 0
    /\ LET inputs  == [i \in Inputs |-> Process(input_channels[i]).out]
           values  == MapInputs(inputs)
           outputs == MapOutputs(values)
       IN  /\ input_channels' = [i \in Inputs |-> Process(input_channels[i]).ch]
           /\ module_values' = values
           \* lines 154-174 write out_frame[0] and out_frame[1] only: the
           \* other slots of the chunk keep what the block held on entry
           /\ device_frame' = [device_frame EXCEPT
                                  ![1] = Mix(output_channels, outputs, "Left", 0),
                                  ![2] = Mix(output_channels, outputs, "Right", 0)]
           /\ frames_out' = IF log.keep THEN Append(frames_out, outputs) ELSE frames_out
           /\ cb' = [cb EXCEPT !.pc = "copy", !.outputs = outputs, !.i = 0]
    /\ UNCHANGED <<output_channels, message_queue, event_queue, output_buffer, mutex,
                   ui, input_models, output_models, stamps, pushed, applied>>
    /\ log' = [log EXCEPT !.due = IF (Len(frames_out) + 1) % EVENT_UPDATE_INTERVAL = 0
                                      THEN log.due + 1 ELSE log.due]
    /\ UNCHANGED benchVars

\* CallbackCopy storing the routed sample: 0.0 for a disabled output channel
CallbackCopyRouted ==
    /\ cb.pc = "copy"
    /\ LET index == output_buffer.index
           last  == cb.i = OUT - 1
       IN  /\ output_buffer' =
                  [buffer  |-> [output_buffer.buffer EXCEPT ![cb.i][index] =
                                    IF output_channels[cb.i].enabled
                                        THEN cb.outputs[cb.i] ELSE 0],
                   index   |-> IF last THEN NextIndex(index) ELSE index,
                   counter |-> IF last THEN output_buffer.counter + 1
                                       ELSE output_buffer.counter]
           /\ stamps' = [stamps EXCEPT ![cb.i][index] = Len(frames_out)]
           /\ cb' = IF last
                        THEN [cb EXCEPT !.pc = IF cb.frames = 1 THEN "event" ELSE "frame",
                                        !.frames = cb.frames - 1, !.i = 0]
                        ELSE [cb EXCEPT !.i = cb.i + 1]
    /\ UNCHANGED <<input_channels, output_channels, module_values, message_queue,
                   event_queue, mutex, device_frame, ui, input_models, output_models,
                   frames_out, pushed, applied, log>>
    /\ UNCHANGED benchVars

\* lines 177-182: one channel's sample stored at index; after the last
\* channel, index and counter move on
CallbackCopy ==
    /\ cb.pc = "copy"
    /\ LET index == output_buffer.index
           last  == cb.i = OUT - 1
       IN  /\ output_buffer' =
                  [buffer  |-> [output_buffer.buffer EXCEPT ![cb.i][index] = cb.outputs[cb.i]],
                   index   |-> IF last THEN NextIndex(index) ELSE index,
                   counter |-> IF last THEN output_buffer.counter + 1
                                       ELSE output_buffer.counter]
           /\ stamps' = [stamps EXCEPT ![cb.i][index] = Len(frames_out)]
           /\ cb' = IF last
                        THEN [cb EXCEPT !.pc = IF cb.frames = 1 THEN "event" ELSE "frame",
                                        !.frames = cb.frames - 1, !.i = 0]
                        ELSE [cb EXCEPT !.i = cb.i + 1]
    /\ UNCHANGED <<input_channels, output_channels, module_values, message_queue,
                   event_queue, mutex, device_frame, ui, input_models, output_models,
                   frames_out, pushed, applied, log>>
    /\ UNCHANGED benchVars

\* lines 185-189: the snapshot push, its failure ignored; the lock guard is
\* dropped as the closure returns
CallbackEvent ==
    /\ cb.pc = "event"
    /\ event_queue' = IF EventDue(output_buffer.index)
                          THEN Push(event_queue, input_channels)
                          ELSE event_queue
    /\ mutex' = "free"
    /\ cb' = CbIdle
    /\ UNCHANGED <<input_channels, output_channels, module_values, message_queue,
                   output_buffer, device_frame, ui, input_models, output_models,
                   stamps, frames_out, pushed, applied>>
    /\ log' = [log EXCEPT !.start_pushed = 0, !.due = 0,
                           !.failed = EventDue(output_buffer.index) /\ ~PushOk(event_queue)]
    /\ UNCHANGED benchVars

\* ------------------------------------------ lib.rs: process_output_buffer

\* Numbers of the analysis.  A window weight is in units 1/2; a bin of the
\* transform is a pair <<re, im>> in units 1/(2*Den*Den); a norm and a
\* smoothed magnitude are in units 1/(2*Den*Den*NormOne); an angle is in
\* eighths of a turn, rounded to the nearest; a displayed magnitude is a float
\* of f64: not-a-number, infinite, or a number in units 1/NormOne.

\* cos and sin of k quarter turns: the angles of a transform of length 4
CosQuarter(k) == CASE k % 4 = 0 -> 1 [] k % 4 = 2 -> 0 - 1 [] OTHER -> 0

SinQuarter(k) == CASE k % 4 = 1 -> 1 [] k % 4 = 3 -> 0 - 1 [] OTHER -> 0

\* analyze.rs build_window_function: 0.5 - 0.5 * cos(2 PI i / N), units 1/2
\* (i of SIZE = 4 slots is i quarter turns)
WindowFunction == [i \in Slots |-> 1 - CosQuarter(i)]

\* lines 134-140: the window of channel `channel`, oldest sample first
Windowed(out_buffer, channel) ==
    [i \in Slots |->
        WindowFunction[i] * out_buffer.buffer[channel][(out_buffer.index + i) % SIZE]]

\* lines 142-147: Radix4 forward transform of the real sequence x
RECURSIVE DftSum(_, _, _, _)
DftSum(x, k, j, part) ==
    IF j = SIZE
        THEN 0
        ELSE (IF part = "re" THEN x[j] * CosQuarter(j * k)
                             ELSE 0 - x[j] * SinQuarter(j * k))
             + DftSum(x, k, j + 1, part)

Fft(x) == [k \in Slots |-> <<DftSum(x, k, 0, "re"), DftSum(x, k, 0, "im")>>]

Abs(n) == IF n < 0 THEN 0 - n ELSE n

\* Complex32::to_polar, the norm: the square root, rounded down
Norm(z) ==
    LET n == (z[1] * z[1] + z[2] * z[2]) * NormOne * NormOne
    IN  CHOOSE r \in 0..((Abs(z[1]) + Abs(z[2])) * NormOne) :
            r * r <= n /\ n < (r + 1) * (r + 1)

\* Complex32::to_polar, the angle atan2(im, re) in eighths of a turn
Arg(z) ==
    LET a == Abs(z[1])
        b == Abs(z[2])
        u == IF (a + b) * (a + b) < 2 * a * a THEN 0
             ELSE IF (a + b) * (a + b) < 2 * b * b THEN 2 ELSE 1
    IN  IF a = 0 /\ b = 0 THEN 0
        ELSE IF z[1] >= 0 /\ z[2] >= 0 THEN u
        ELSE IF z[1] < 0 /\ z[2] >= 0 THEN 4 - u
        ELSE IF z[1] < 0 THEN u - 4
        ELSE 0 - u

\* a value of f64
Num(n) == [kind |-> "num", n |-> n]

NaN == [kind |-> "nan", n |-> 0]

Infinity == [kind |-> "inf", n |-> 0]

\* line 174: y /= max_norm in f64, for y >= 0 and max_norm >= 0
Divide(y, max_norm) ==
    IF max_norm = 0
        THEN (IF y = 0 THEN NaN ELSE Infinity)
        ELSE Num((y * NormOne) \div max_norm)

\* line 157: filtered += 0.5 * (norm - filtered), rounded up: halving a
\* positive f64 does not reach zero within the passes of a bounded run
Smooth(filtered, norm) == (filtered + norm + 1) \div 2

\* lines 149-171: the scan over bins 0..n-1: the running maximum of the
\* smoothed magnitudes, where it is, and the phase step there
RECURSIVE Scan(_, _, _, _)
Scan(filtered, phase, prior_phase, n) ==
    IF n = 0
        THEN [max_norm |-> 0, max_norm_index |-> 0, max_norm_phase_diff |-> 0]
        ELSE LET before == Scan(filtered, phase, prior_phase, n - 1)
                 i == n - 1
             IN  IF filtered[i] > before.max_norm
                     THEN [max_norm |-> filtered[i], max_norm_index |-> i,
                           max_norm_phase_diff |-> phase[i] - prior_phase[i]]
                     ELSE before

RECURSIVE Gcd(_, _)
Gcd(a, b) == IF b = 0 THEN a ELSE Gcd(b, a % b)

\* a frequency in cycles per sample, as a fraction in lowest terms
Freq(num, den) ==
    LET g == Gcd(Abs(num), den)
    IN  [num |-> num \div g, den |-> den \div g]

\* f32::MANTISSA_DIGITS (24), scaled: the significant binary digits of an f32
F32_MANTISSA == 5

\* the spacing of the f32 values around n: the least power of two u (from
\* u upwards) with |n| < 2^F32_MANTISSA * u
RECURSIVE Ulp(_, _)
Ulp(n, u) == IF Abs(n) < (2 ^ F32_MANTISSA) * u THEN u ELSE Ulp(n, 2 * u)

\* the f32 nearest to n, a tie going to the even significand: the result of
\* every f32 operation whose exact result is n
F32(n) ==
    LET u == Ulp(n, 1)
        q == n \div u
        r == n % u
    IN  IF 2 * r < u THEN q * u
        ELSE IF 2 * r > u THEN (q + 1) * u
        ELSE IF q % 2 = 0 THEN q * u ELSE (q + 1) * u

\* line 180: output_buffer.counter as f32
DtF32(counter) == F32(counter)

\* line 189: freq = (dp + phase) / (2 PI dt), with dp and phase in eighths of
\* a turn; all frequencies of the search are numerators over the common
\* denominator 8 * dt * SIZE.  The sum dp + phase is rounded as an f32; the
\* rounding of the product and of the quotient, which keeps their order, is
\* left out.
CandidateFreq(dp, phase) == F32(dp + phase) * SIZE

\* line 184: freq_est = max_norm_index / SIZE, over the same denominator
CoarseFreq(index, dt) == index * 8 * DtF32(dt)

\* line 190: the test that ends the search
Above(freq, freq_est) == freq > freq_est

\* lines 191-195: the value the loop breaks with
Chosen(freq, freq_est, freq_prev, dt) ==
    IF freq - freq_est < freq_est - freq_prev
        THEN Freq(freq, 8 * DtF32(dt) * SIZE)
        ELSE Freq(freq_prev, 8 * DtF32(dt) * SIZE)

\* line 198: phase += 2.0 * PI, in f32
NextPhase(phase) == F32(phase + 8)

\* lines 186-199: the search over the unwrap candidates, from the locals
\* phase and freq_prev on
RECURSIVE Refine(_, _, _, _, _)
Refine(index, dp, dt, phase, freq_prev) ==
    LET freq     == CandidateFreq(dp, phase)
        freq_est == CoarseFreq(index, dt)
    IN  IF Above(freq, freq_est)
            THEN Chosen(freq, freq_est, freq_prev, dt)
            ELSE Refine(index, dp, dt, NextPhase(phase), freq)

\* the search bench at rest (odd: history, the parity of the iterations made)
SearchIdle == [pc |-> "idle", index |-> 0, dp |-> 0, dt |-> 0,
               phase |-> 0, freq_prev |-> 0, est |-> Freq(0, 1), odd |-> FALSE]

\* line 205: (1.0 / freq_est).round() as usize, for freq_est > 0
Period(freq_est) == (2 * freq_est.den + freq_est.num) \div (2 * freq_est.num)

\* lines 134-171: the maximum found by the scan of one pass
Peak(ctx, out_buffer) ==
    LET bins     == Fft(Windowed(out_buffer, ctx.output_channel))
        filtered == [i \in Slots |-> Smooth(ctx.output_spectrum_filtered[i], Norm(bins[i]))]
        phase    == [i \in Slots |-> Arg(bins[i])]
    IN  Scan(filtered, phase, ctx.output_spectrum_phase, SIZE)

\* Analyze with an estimate that a pass without new frames sets back to 0.0
AnalyzeForgets(ctx, out_buffer) ==
    LET start    == out_buffer.index
        bins     == Fft(Windowed(out_buffer, ctx.output_channel))
        filtered == [i \in Slots |-> Smooth(ctx.output_spectrum_filtered[i], Norm(bins[i]))]
        phase    == [i \in Slots |-> Arg(bins[i])]
        scan     == Peak(ctx, out_buffer)
        dt       == out_buffer.counter
        freq_est == IF dt # 0
                        THEN Refine(scan.max_norm_index, scan.max_norm_phase_diff, dt, 0, 0)
                        ELSE Freq(0, 1)
        buffer_phase == IF freq_est.num > 0
                            THEN (ctx.output_buffer_phase + Period(freq_est)) % SIZE
                            ELSE ctx.output_buffer_phase
        offset   == IF ctx.tracking = "Static" THEN start ELSE buffer_phase
    IN  [ctx EXCEPT
            !.output_spectrum_filtered = filtered,
            !.output_spectrum_magnitude = [i \in Slots |-> Divide(filtered[i], scan.max_norm)],
            !.output_spectrum_phase = phase,
            !.output_buffer_freq_est = freq_est,
            !.output_buffer_phase = buffer_phase,
            !.output_buffer_time_series =
                [i \in Slots |-> out_buffer.buffer[ctx.output_channel][(offset + i) % SIZE]]]

\* process_output_buffer, lines 130-218: what one pass makes of the fields of
\* Context and of the capture buffer
Analyze(ctx, out_buffer) ==
    LET start    == out_buffer.index
        bins     == Fft(Windowed(out_buffer, ctx.output_channel))
        filtered == [i \in Slots |-> Smooth(ctx.output_spectrum_filtered[i], Norm(bins[i]))]
        phase    == [i \in Slots |-> Arg(bins[i])]
        scan     == Peak(ctx, out_buffer)
        dt       == out_buffer.counter
        freq_est == IF dt # 0
                        THEN Refine(scan.max_norm_index, scan.max_norm_phase_diff, dt, 0, 0)
                        ELSE ctx.output_buffer_freq_est
        buffer_phase == IF freq_est.num > 0
                            THEN (ctx.output_buffer_phase + Period(freq_est)) % SIZE
                            ELSE ctx.output_buffer_phase
        offset   == IF ctx.tracking = "Static" THEN start ELSE buffer_phase
    IN  [ctx EXCEPT
            !.output_spectrum_filtered = filtered,
            !.output_spectrum_magnitude = [i \in Slots |-> Divide(filtered[i], scan.max_norm)],
            !.output_spectrum_phase = phase,
            !.output_buffer_freq_est = freq_est,
            !.output_buffer_phase = buffer_phase,
            !.output_buffer_time_series =
                [i \in Slots |-> out_buffer.buffer[ctx.output_channel][(offset + i) % SIZE]]]

\* Context::new, lines 108-127: the fields the analysis works on
ContextNew ==
    [output_spectrum_filtered |-> [i \in Slots |-> 0],
     output_spectrum_magnitude |-> [i \in Slots |-> Num(0)],
     output_spectrum_phase |-> [i \in Slots |-> 0],
     output_buffer_freq_est |-> Freq(0, 1),
     output_buffer_phase |-> 0,
     output_buffer_time_series |-> [i \in Slots |-> 0],
     output_channel |-> 0,
     tracking |-> "Static"]

\* ------------------------------------------------ lib.rs: the UI thread

UiStart == [pc |-> "events", start |-> 0, dt |-> 0, k |-> 0]

\* lines 239-241: one event popped and mirrored into the input widget
UiPopEvent ==
    /\ ui.pc = "events"
    /\ PopOk(event_queue)
    /\ input_models' = PopValue(event_queue)
    /\ event_queue' = PopRest(event_queue)
    /\ UNCHANGED <<input_channels, output_channels, module_values, message_queue,
                   output_buffer, mutex, device_frame, cb, ui, output_models,
                   stamps, frames_out, pushed, applied, log>>
    /\ UNCHANGED benchVars

\* line 239: pop() fails on the empty queue; update() goes on to the analysis
UiEventsDrained ==
    /\ ui.pc = "events"
    /\ ~PopOk(event_queue)
    /\ ui' = [ui EXCEPT !.pc = "lock"]
    /\ UNCHANGED <<input_channels, output_channels, module_values, message_queue,
                   event_queue, output_buffer, mutex, device_frame, cb,
                   input_models, output_models, stamps, frames_out, pushed, applied, log>>
    /\ UNCHANGED benchVars

\* process_output_buffer, line 131: output_buffer.lock()
AnalyzerLock ==
    /\ ui.pc = "lock"
    /\ CanLock
    /\ mutex' = "ui"
    /\ ui' = [ui EXCEPT !.pc = "window"]
    /\ UNCHANGED <<input_channels, output_channels, module_values, message_queue,
                   event_queue, output_buffer, device_frame, cb,
                   input_models, output_models, stamps, frames_out, pushed, applied, log>>
    /\ UNCHANGED benchVars

\* lines 134-140: the window copied into the complex scratch array
AnalyzerWindow ==
    /\ ui.pc = "window"
    /\ ui' = [ui EXCEPT !.pc = "fft", !.start = output_buffer.index]
    /\ UNCHANGED <<input_channels, output_channels, module_values, message_queue,
                   event_queue, output_buffer, mutex, device_frame, cb,
                   input_models, output_models, stamps, frames_out, pushed, applied, log>>
    /\ UNCHANGED benchVars

\* lines 142-147: the transform
AnalyzerFft ==
    /\ ui.pc = "fft"
    /\ ui' = [ui EXCEPT !.pc = "scan"]
    /\ UNCHANGED <<input_channels, output_channels, module_values, message_queue,
                   event_queue, output_buffer, mutex, device_frame, cb,
                   input_models, output_models, stamps, frames_out, pushed, applied, log>>
    /\ UNCHANGED benchVars

\* AnalyzerScan without the reset of the counter
AnalyzerScanKeepsCounter ==
    /\ ui.pc = "scan"
    /\ ui' = [ui EXCEPT !.pc = "refine", !.dt = output_buffer.counter, !.k = 0]
    /\ UNCHANGED output_buffer
    /\ UNCHANGED <<input_channels, output_channels, module_values, message_queue,
                   event_queue, mutex, device_frame, cb,
                   input_models, output_models, stamps, frames_out, pushed, applied>>
    /\ log' = [log EXCEPT !.read_at = Len(frames_out)]
    /\ UNCHANGED benchVars

\* AnalyzerScan setting the write index back together with the counter
AnalyzerScanRewinds ==
    /\ ui.pc = "scan"
    /\ ui' = [ui EXCEPT !.pc = "refine", !.dt = output_buffer.counter, !.k = 0]
    /\ output_buffer' = [output_buffer EXCEPT !.counter = 0, !.index = 0]
    /\ UNCHANGED <<input_channels, output_channels, module_values, message_queue,
                   event_queue, mutex, device_frame, cb,
                   input_models, output_models, stamps, frames_out, pushed, applied>>
    /\ log' = [log EXCEPT !.read_at = Len(frames_out)]
    /\ UNCHANGED benchVars

\* lines 149-181: the scan over the bins and the normalization; then dt is
\* read from the counter and the counter reset
AnalyzerScan ==
    /\ ui.pc = "scan"
    /\ ui' = [ui EXCEPT !.pc = "refine", !.dt = output_buffer.counter, !.k = 0]
    /\ output_buffer' = [output_buffer EXCEPT !.counter = 0]
    /\ UNCHANGED <<input_channels, output_channels, module_values, message_queue,
                   event_queue, mutex, device_frame, cb,
                   input_models, output_models, stamps, frames_out, pushed, applied>>
    /\ log' = [log EXCEPT !.read_at = Len(frames_out)]
    /\ UNCHANGED benchVars

\* lines 187-197: candidate k of the search is (dp + 2 PI k) / (2 PI dt).
\* The difference dp of two angles of (-PI, PI] is above -2 PI, so the
\* candidate is above (k - 1) / dt, and candidate dt + 1 is above 1, hence
\* above freq_est = max_norm_index / SIZE: the candidates that may still fail
\* the test of line 188 are those up to dt.
MayStayBelow(k, dt) == k <= dt

\* lines 187-197: a candidate not above freq_est; the search goes on to the
\* next one
AnalyzerRefine ==
    /\ ui.pc = "refine"
    /\ ui.dt # 0
    /\ MayStayBelow(ui.k, ui.dt)
    /\ ui' = [ui EXCEPT !.k = ui.k + 1]
    /\ UNCHANGED <<input_channels, output_channels, module_values, message_queue,
                   event_queue, output_buffer, mutex, device_frame, cb,
                   input_models, output_models, stamps, frames_out, pushed, applied, log>>
    /\ UNCHANGED benchVars

\* AnalyzerRefined with a search that never leaves its loop
AnalyzerRefineSpins ==
    /\ ui.pc = "refine"
    /\ UNCHANGED sysVars
    /\ UNCHANGED benchVars

\* lines 181-200: the search skipped for dt = 0, or left by one of its breaks
\* at a candidate above freq_est
AnalyzerRefined ==
    /\ ui.pc = "refine"
    /\ ui' = [ui EXCEPT !.pc = "series", !.k = 0]
    /\ UNCHANGED <<input_channels, output_channels, module_values, message_queue,
                   event_queue, output_buffer, mutex, device_frame, cb,
                   input_models, output_models, stamps, frames_out, pushed, applied, log>>
    /\ UNCHANGED benchVars

\* lines 202-218: the time series read from the buffer; the lock guard is
\* dropped as process_output_buffer returns
AnalyzerSeries ==
    /\ ui.pc = "series"
    /\ mutex' = "free"
    /\ ui' = [ui EXCEPT !.pc = "render"]
    /\ UNCHANGED <<input_channels, output_channels, module_values, message_queue,
                   event_queue, output_buffer, device_frame, cb,
                   input_models, output_models, stamps, frames_out, pushed, applied, log>>
    /\ UNCHANGED benchVars

\* sender.push(message).unwrap(): the message queued, or the panic of
\* unwrap() on Err(Full)
UiPush(kind, channel, command) ==
    /\ message_queue' = Push(message_queue, ControlMessage(kind, channel, command, pushed + 1))
    /\ pushed' = IF PushOk(message_queue) THEN pushed + 1 ELSE pushed
    /\ ui' = IF PushOk(message_queue) THEN ui ELSE [ui EXCEPT !.pc = "panicked"]

\* the interactions of one run are bounded
MayInteract(maxPush) == ui.pc = "render" /\ pushed < maxPush

\* input.rs lines 145-155: the Enabled checkbox of input channel i changed
InputCheckbox(maxPush) ==
    \E i \in Inputs :
        /\ MayInteract(maxPush)
        /\ input_models' = [input_models EXCEPT ![i].enabled = ~input_models[i].enabled]
        /\ UiPush("InputControl", i,
                  InputCommand(IF input_models'[i].enabled THEN "SetEnabled" ELSE "SetDisabled",
                               Wave("Sine", 0), 0))
        /\ UNCHANGED <<input_channels, output_channels, module_values, event_queue,
                       output_buffer, mutex, device_frame, cb, output_models,
                       stamps, frames_out, applied, log>>
        /\ UNCHANGED benchVars

\* a slider whose range is not enforced: values up to 2.0 can be entered
SliderFrequenciesWide == 0..(2 * One)

\* input.rs line 164: the range 0.0..=5e-1 of the Frequency slider, to which
\* the slider clamps every value
SliderFrequencies == 0..HalfDen

\* input.rs lines 160-172: the Frequency slider of input channel i changed
FrequencySlider(maxPush) ==
    \E i \in Inputs, f \in SliderFrequencies :
        /\ MayInteract(maxPush)
        /\ f # input_models[i].frequency
        /\ input_models' = [input_models EXCEPT ![i].frequency = f]
        /\ UiPush("InputControl", i, InputCommand("SetFrequency", Wave("Sine", 0), f))
        /\ UNCHANGED <<input_channels, output_channels, module_values, event_queue,
                       output_buffer, mutex, device_frame, cb, output_models,
                       stamps, frames_out, applied, log>>
        /\ UNCHANGED benchVars

\* output.rs lines 258-268: the Audio checkbox of output channel i changed
OutputCheckbox(maxPush) ==
    \E i \in Outputs :
        /\ MayInteract(maxPush)
        /\ output_models' = [output_models EXCEPT ![i].enabled = ~output_models[i].enabled]
        /\ UiPush("OutputControl", i,
                  OutputCommand(IF output_models'[i].enabled THEN "SetEnabled" ELSE "SetDisabled",
                                "Both", 0))
        /\ UNCHANGED <<input_channels, output_channels, module_values, event_queue,
                       output_buffer, mutex, device_frame, cb, input_models,
                       stamps, frames_out, applied, log>>
        /\ UNCHANGED benchVars

\* lib.rs lines 245-365: the panels are drawn and update() returns; the
\* repaint request starts the next update()
UiRendered ==
    /\ ui.pc = "render"
    /\ ui' = [ui EXCEPT !.pc = "events"]
    /\ UNCHANGED <<input_channels, output_channels, module_values, message_queue,
                   event_queue, output_buffer, mutex, device_frame, cb,
                   input_models, output_models, stamps, frames_out, pushed, applied, log>>
    /\ UNCHANGED benchVars

\* the log of a run that has not begun:
\*   applied_at[n]  frames processed before message applied[n] was applied
\*   start_pushed   messages pushed before the invocation now running began
\*   due            times the invocation now running brought the number of
\*                  frames processed to a multiple of EVENT_UPDATE_INTERVAL
\*   read_at        frames processed when the analysis last read the counter
\*   failed         the invocation that ended last found the event queue full
\*   keep           the frames of the run are recorded in frames_out
LogNew == [applied_at |-> <<>>, start_pushed |-> 0, due |-> 0, read_at |-> 0,
           failed |-> FALSE, keep |-> TRUE]

\* Context::new and build_output_stream, before the stream is played
Started(l) ==
    /\ input_channels = [i \in Inputs |-> InputChannelNew]
    /\ output_channels = [i \in Outputs |-> OutputChannelNew]
    /\ module_values = [i \in Inputs |-> 0]
    /\ message_queue = <<>>
    /\ event_queue = <<>>
    /\ output_buffer = OutputBufferNew
    /\ mutex = "free"
    /\ device_frame = <<0, 0>>
    /\ cb = CbIdle
    /\ ui = UiStart
    /\ input_models = [i \in Inputs |-> InputChannelNew]
    /\ output_models = [i \in Outputs |-> OutputChannelNew]
    /\ stamps = [c \in Outputs |-> [k \in Slots |-> 0]]
    /\ frames_out = <<>>
    /\ pushed = 0
    /\ applied = <<>>
    /\ log = l

SysInit == Started(LogNew)

\* the analysis bench is not part of the running system
AnalysisIdle ==
    /\ context = ContextNew
    /\ pass = [count |-> 0, max_norm |-> 0, dt |-> 0]
    /\ search = SearchIdle

\* the oscillator bench is not part of the running system
OscIdle ==
    /\ chan = InputChannelNew
    /\ twin = InputChannelNew
    /\ ret = 0
    /\ twinRet = 0
    /\ prevPhase = 0
    /\ lastOp = "init"
    /\ freqOk = TRUE
    /\ still = InputChannelNew

vars == <<benchVars, sysVars>>

Init == SysInit /\ OscIdle /\ AnalysisIdle

\* one step of the audio thread or of the UI thread
Next(maxFrames, maxPush) ==
    \/ CallbackStart(maxFrames)
    \/ CallbackPop
    \/ CallbackDrained
    \/ CallbackLock
    \/ CallbackFrame
    \/ CallbackCopy
    \/ CallbackEvent
    \/ UiPopEvent
    \/ UiEventsDrained
    \/ AnalyzerLock
    \/ AnalyzerWindow
    \/ AnalyzerFft
    \/ AnalyzerScan
    \/ AnalyzerRefine
    \/ AnalyzerRefined
    \/ AnalyzerSeries
    \/ InputCheckbox(maxPush)
    \/ OutputCheckbox(maxPush)
    \/ UiRendered

\* long runs of the audio thread, few widget interactions
Spec == Init /\ [][Next(MaxFrames, MaxPush)]_vars

\* many widget interactions, short runs of the audio thread
SpecQueue == Init /\ [][Next(QueueFrames, QueuePush)]_vars

\* The scheduling the two threads run under.  The audio thread, once called,
\* keeps taking steps, and its lock() succeeds if the mutex is free again and
\* again (the UI thread draws a whole frame between two passes).  The UI
\* thread keeps taking the steps of a pass it has begun.  Nothing is assumed
\* about the device calling again or about the user touching a widget.
Fairness ==
    /\ WF_vars(CallbackPop)
    /\ WF_vars(CallbackDrained)
    /\ SF_vars(CallbackLock)
    /\ WF_vars(CallbackFrame)
    /\ WF_vars(CallbackCopy)
    /\ WF_vars(CallbackEvent)
    /\ WF_vars(AnalyzerWindow)
    /\ WF_vars(AnalyzerFft)
    /\ WF_vars(AnalyzerScan)
    /\ WF_vars(AnalyzerRefine \/ AnalyzerRefined)
    /\ WF_vars(AnalyzerSeries)

FairSpec == Init /\ [][Next(LiveFrames, LivePush)]_vars /\ Fairness

\* The system left running for ever: the frames of the run are not recorded,
\* the device calls with any block size whenever fewer than MaxDt frames wait
\* for the analysis, and only the Enabled checkboxes of the oscillators are
\* touched.
MirrorInit == Started([LogNew EXCEPT !.keep = FALSE]) /\ OscIdle /\ AnalysisIdle

DeviceCalls == output_buffer.counter < MaxDt /\ CallbackStart(MaxBlock)

MirrorNext ==
    \/ DeviceCalls
    \/ CallbackPop
    \/ CallbackDrained
    \/ CallbackLock
    \/ CallbackFrame
    \/ CallbackCopy
    \/ CallbackEvent
    \/ UiPopEvent
    \/ UiEventsDrained
    \/ AnalyzerLock
    \/ AnalyzerWindow
    \/ AnalyzerFft
    \/ AnalyzerScan
    \/ AnalyzerRefine
    \/ AnalyzerRefined
    \/ AnalyzerSeries
    \/ InputCheckbox(LivePush)
    \/ UiRendered

\* The device keeps calling and every update() of the UI thread is followed
\* by the next: both threads run for ever, and each gets the lock again and
\* again.  Nothing is assumed about the user touching a widget.
MirrorFairness ==
    /\ Fairness
    /\ WF_vars(DeviceCalls)
    /\ WF_vars(UiPopEvent)
    /\ WF_vars(UiEventsDrained)
    /\ SF_vars(AnalyzerLock)
    /\ WF_vars(UiRendered)

SpecMirror == MirrorInit /\ [][MirrorNext]_vars /\ MirrorFairness

\* The running system with the Frequency sliders in use.
SliderNext ==
    \/ CallbackStart(LiveFrames)
    \/ CallbackPop
    \/ CallbackDrained
    \/ CallbackLock
    \/ CallbackFrame
    \/ CallbackCopy
    \/ CallbackEvent
    \/ UiPopEvent
    \/ UiEventsDrained
    \/ AnalyzerLock
    \/ AnalyzerWindow
    \/ AnalyzerFft
    \/ AnalyzerScan
    \/ AnalyzerRefine
    \/ AnalyzerRefined
    \/ AnalyzerSeries
    \/ InputCheckbox(LivePush)
    \/ FrequencySlider(LivePush)
    \/ OutputCheckbox(LivePush)
    \/ UiRendered

SpecSlider == Init /\ [][SliderNext]_vars

\* -------------------------------------------------------- analysis bench

\* Sample values the bench fills the capture buffer with (units 1/(Den*Den)).
BenchSamples == {0 - 1, 0, 1}

\* Context::new with an output channel and a tracking mode selected, and a
\* capture buffer as the callback may have left it: channel 0 holds any
\* samples, channel 1 is silent
AnalysisInit ==
    /\ \E i \in Outputs, t \in {"Static", "Following"} :
           context = [ContextNew EXCEPT !.output_channel = i, !.tracking = t]
    /\ \E w \in [Slots -> BenchSamples], index \in Slots :
           output_buffer = [buffer  |-> [c \in Outputs |->
                                            IF c = 0 THEN w ELSE [k \in Slots |-> 0]],
                            index   |-> index,
                            counter |-> 0]
    /\ pass = [count |-> 0, max_norm |-> 0, dt |-> 0]
    /\ search = SearchIdle
    /\ OscIdle
    /\ input_channels = [i \in Inputs |-> InputChannelNew]
    /\ output_channels = [i \in Outputs |-> OutputChannelNew]
    /\ module_values = [i \in Inputs |-> 0]
    /\ message_queue = <<>>
    /\ event_queue = <<>>
    /\ mutex = "free"
    /\ device_frame = <<0, 0>>
    /\ cb = CbIdle
    /\ ui = UiStart
    /\ input_models = [i \in Inputs |-> InputChannelNew]
    /\ output_models = [i \in Outputs |-> OutputChannelNew]
    /\ stamps = [c \in Outputs |-> [k \in Slots |-> 0]]
    /\ frames_out = <<>>
    /\ pushed = 0
    /\ applied = <<>>
    /\ log = LogNew

\* the variables the analysis bench leaves alone
analysisRest ==
    <<chan, twin, ret, twinRet, prevPhase, lastOp, freqOk, still,
      input_channels, output_channels, module_values, message_queue, event_queue,
      mutex, device_frame, cb, ui, input_models, output_models,
      stamps, frames_out, pushed, applied, log, search>>

\* one call of process_output_buffer
AnalysisPass ==
    /\ pass.count < MaxPasses
    /\ context' = Analyze(context, output_buffer)
    /\ output_buffer' = [output_buffer EXCEPT !.counter = 0]
    /\ pass' = [count    |-> pass.count + 1,
                max_norm |-> Peak(context, output_buffer).max_norm,
                dt       |-> output_buffer.counter]
    /\ UNCHANGED analysisRest

\* output.rs lines 177-182: the callback stores one more frame (while a pass
\* is still to come)
AnalysisFrame ==
    /\ pass.count < MaxPasses
    /\ output_buffer.counter < MaxDt
    /\ \E sample \in BenchSamples :
           output_buffer' =
               [buffer  |-> [output_buffer.buffer EXCEPT
                                ![0][output_buffer.index] = sample,
                                ![1][output_buffer.index] = 0],
                index   |-> NextIndex(output_buffer.index),
                counter |-> output_buffer.counter + 1]
    /\ UNCHANGED <<context, pass, search>>
    /\ UNCHANGED analysisRest

AnalysisNext == AnalysisPass \/ AnalysisFrame

SpecAnalysis == AnalysisInit /\ [][AnalysisNext]_vars

\* ---------------------------------------------------------- search bench

\* What a pass can hand to the search: the peak of a real signal is in the
\* lower half of the spectrum, the difference of two angles of (-PI, PI] is
\* inside (-2 PI, 2 PI), and at least one frame was written
SearchIndexes == 0..(SIZE \div 2)

PhaseDiffs == (0 - 7)..7

\* lines 183-187: the search entered with its locals set
SearchInit ==
    /\ \E index \in SearchIndexes, dp \in PhaseDiffs, dt \in 1..MaxSearchDt :
           search = [pc |-> "loop", index |-> index, dp |-> dp, dt |-> dt,
                     phase |-> 0, freq_prev |-> 0, est |-> Freq(0, 1), odd |-> FALSE]
    /\ context = ContextNew
    /\ pass = [count |-> 0, max_norm |-> 0, dt |-> 0]
    /\ SysInit
    /\ OscIdle

searchRest ==
    <<chan, twin, ret, twinRet, prevPhase, lastOp, freqOk, still, context, pass, sysVars>>

\* lines 189-190 and 197-198: a candidate not above freq_est; it becomes
\* freq_prev and the phase goes up by a turn
SearchRetry ==
    /\ search.pc = "loop"
    /\ LET freq == CandidateFreq(search.dp, search.phase)
       IN  /\ ~Above(freq, CoarseFreq(search.index, search.dt))
           /\ search' = [search EXCEPT !.freq_prev = freq,
                                       !.phase = NextPhase(search.phase),
                                       !.odd = ~search.odd]
    /\ UNCHANGED searchRest

\* lines 189-195: a candidate above freq_est; the loop breaks with the
\* estimate
SearchBreak ==
    /\ search.pc = "loop"
    /\ LET freq     == CandidateFreq(search.dp, search.phase)
           freq_est == CoarseFreq(search.index, search.dt)
       IN  /\ Above(freq, freq_est)
           /\ search' = [search EXCEPT
                             !.pc = "done",
                             !.est = Chosen(freq, freq_est, search.freq_prev, search.dt)]
    /\ UNCHANGED searchRest

SearchNext == SearchRetry \/ SearchBreak

\* the UI thread keeps running: an iteration that can be taken is taken
SpecSearch ==
    SearchInit /\ [][SearchNext]_vars /\ WF_vars(SearchRetry) /\ WF_vars(SearchBreak)

\* --------------------------------------------------------- routing bench

\* Values the bench draws from: volumes, what a block holds on entry, and
\* the number of channels of the device (lines 115-116: at least 2)
BenchVolumes == {0, 1, HalfDen}
EntryValues == {0, 1}
DeviceChannels == {2, 3}

\* build_output_stream with the output channels in any setting, the second
\* oscillator on either of two waveforms, and a device of 2 or 3 channels
\* whose blocks arrive holding any values
RouteInit ==
    /\ \E w \in {Wave("Sine", 0), Wave("RampUp", 0)} :
           input_channels = [i \in Inputs |->
               IF i = 0 THEN InputChannelNew ELSE [InputChannelNew EXCEPT !.wave = w]]
    /\ output_channels \in
           [Outputs -> [output_map : OutputMaps, volume : BenchVolumes, enabled : BOOLEAN]]
    /\ \E channels \in DeviceChannels : device_frame \in [1..channels -> EntryValues]
    /\ module_values = [i \in Inputs |-> 0]
    /\ message_queue = <<>>
    /\ event_queue = <<>>
    /\ output_buffer = OutputBufferNew
    /\ mutex = "free"
    /\ cb = CbIdle
    /\ ui = UiStart
    /\ input_models = [i \in Inputs |-> InputChannelNew]
    /\ output_models = [i \in Outputs |-> OutputChannelNew]
    /\ stamps = [c \in Outputs |-> [k \in Slots |-> 0]]
    /\ frames_out = <<>>
    /\ pushed = 0
    /\ applied = <<>>
    /\ log = LogNew
    /\ OscIdle
    /\ AnalysisIdle

\* the audio callback alone: the UI thread pushes nothing and reads nothing
RouteNext ==
    \/ CallbackStart(RouteFrames)
    \/ CallbackDrained
    \/ CallbackLock
    \/ CallbackFrame
    \/ CallbackCopy
    \/ CallbackEvent

SpecRoute == RouteInit /\ [][RouteNext]_vars

\* ---------------------------------------------------------- oscillator bench

\* Values the bench draws parameters from.  Frequencies reach past 1.0 so
\* that the precondition frequency < 1 is a real restriction.
BenchFrequencies == 0..(One + 1)
BenchScales == {0, 1, One}
BenchOffsets == {0 - One, 0, 1}
BenchPhases == 0..(One - 1)

FreqInRange(f) == 0 < f /\ f < One

BenchCommands ==
    {InputCommand("SetWave", w, 0) : w \in Waves}
        \cup {InputCommand("SetFrequency", Wave("Sine", 0), f) : f \in BenchFrequencies}
        \cup {InputCommand("SetScale", Wave("Sine", 0), s) : s \in BenchScales}
        \cup {InputCommand("SetOffset", Wave("Sine", 0), o) : o \in BenchOffsets}
        \cup {InputCommand(t, Wave("Sine", 0), 0) : t \in {"SetEnabled", "SetDisabled"}}

OscInit ==
    /\ chan \in [wave : Waves, phase : BenchPhases, frequency : BenchFrequencies,
                 scale : BenchScales, offset : BenchOffsets, enabled : BOOLEAN]
    /\ twin = [chan EXCEPT !.enabled = TRUE]
    /\ ret = 0
    /\ twinRet = 0
    /\ prevPhase = chan.phase
    /\ lastOp = "init"
    /\ freqOk = FreqInRange(chan.frequency)
    /\ still = chan
    /\ SysInit
    /\ AnalysisIdle

\* one audio frame: process() on the channel (and on its twin)
OscProcess ==
    \* a frequency above 1.0 lets the phase climb without limit: stop the
    \* bench once the phase has left [0,1) by a whole turn
    /\ chan.phase < 2 * One
    /\ chan' = Process(chan).ch
    /\ ret' = Process(chan).out
    /\ twin' = Process(twin).ch
    /\ twinRet' = Process(twin).out
    /\ prevPhase' = chan.phase
    /\ lastOp' = "process"
    /\ UNCHANGED <<freqOk, still>>
    /\ UNCHANGED <<sysVars, context, pass, search>>

\* one command applied; the twin takes every command except the two that
\* switch the channel on and off
OscCommand ==
    \E command \in BenchCommands :
        /\ chan' = InputHandleCommand(chan, command)
        /\ twin' = IF command.type \in {"SetEnabled", "SetDisabled"}
                       THEN twin
                       ELSE InputHandleCommand(twin, command)
        /\ still' = InputHandleCommand(still, command)
        /\ freqOk' = (freqOk /\ FreqInRange(chan'.frequency))
        /\ lastOp' = "command"
        \* the value a call returned does not outlive the call
        /\ ret' = 0
        /\ twinRet' = 0
        /\ prevPhase' = chan.phase
        /\ UNCHANGED <<sysVars, context, pass, search>>

OscNext == OscProcess \/ OscCommand

SpecOsc == OscInit /\ [][OscNext]_vars

\* ---------------------------------------------------------- command bench

\* the commands the output widget can send
OutputBenchCommands ==
    {OutputCommand("SetMap", m, 0) : m \in OutputMaps}
        \cup {OutputCommand("SetVolume", "Both", v) : v \in BenchVolumes}
        \cup {OutputCommand(t, "Both", 0) : t \in {"SetEnabled", "SetDisabled"}}

\* the messages the bench queues (their id is not used)
BenchMessages ==
    {ControlMessage("InputControl", i, c, 0) : i \in Inputs, c \in BenchCommands}
        \cup {ControlMessage("OutputControl", i, c, 0) : i \in Outputs,
                                                         c \in OutputBenchCommands}

\* channels as earlier commands and frames may have left them: untouched, or
\* with every field changed
BenchInputs ==
    {InputChannelNew,
     [wave |-> Wave("Square", 1), phase |-> 1, frequency |-> HalfDen,
      scale |-> 0, offset |-> 1, enabled |-> FALSE]}

BenchOutputs ==
    {OutputChannelNew, [output_map |-> "Left", volume |-> 1, enabled |-> FALSE]}

\* the callback entered with a full message queue, about to drain it
CommandInit ==
    /\ input_channels \in [Inputs -> BenchInputs]
    /\ output_channels \in [Outputs -> BenchOutputs]
    /\ message_queue \in [1..RINGBUFFER_CAPACITY -> BenchMessages]
    /\ cb = [CbIdle EXCEPT !.pc = "drain", !.frames = 1]
    /\ module_values = [i \in Inputs |-> 0]
    /\ event_queue = <<>>
    /\ output_buffer = OutputBufferNew
    /\ mutex = "free"
    /\ device_frame = <<0, 0>>
    /\ ui = UiStart
    /\ input_models = [i \in Inputs |-> InputChannelNew]
    /\ output_models = [i \in Outputs |-> OutputChannelNew]
    /\ stamps = [c \in Outputs |-> [k \in Slots |-> 0]]
    /\ frames_out = <<>>
    /\ pushed = 0
    /\ applied = <<>>
    /\ log = LogNew
    /\ OscIdle
    /\ AnalysisIdle

\* lines 129-138: the drain loop
CommandNext == CallbackPop \/ CallbackDrained

SpecCommand == CommandInit /\ [][CommandNext]_vars

\* ===================================================================== claims

\* the slots of the capture buffer in which the channels do not all hold a
\* sample of the same frame
TornSlots == {k \in Slots : \E c \in Outputs : stamps[c][k] # stamps[0][k]}

\* the positions of process_output_buffer that read output_buffer.buffer
AnalyzerReads == ui.pc \in {"window", "series"}

\* C1: whenever the analysis pass reads the capture buffer, no slot is torn:
\* in every slot all OUT channels hold the sample of one and the same frame
\* (or none has been written yet).
C1_NoTornRead == AnalyzerReads => TornSlots = {}

\* the analysis reads a buffer written all around, while the callback, with a
\* block to write, waits for the lock
C1_Witness ==
    /\ AnalyzerReads
    /\ cb.pc = "lock"
    /\ Len(frames_out) >= SIZE

\* the callback is between two frames (not in the middle of storing one)
AtFrameBoundary == cb.pc # "copy"

\* C2: between frames, index is in 0..SIZE-1 and is the slot of the next
\* frame; once SIZE frames are written, slot (index + i) mod SIZE of every
\* channel holds the module output of the i-th oldest of the last SIZE
\* frames; before that the slots written hold the frames in order and the
\* others still hold 0.0.  No channel has more than SIZE slots.
C2_CyclicWindow ==
    AtFrameBoundary =>
        LET total == Len(frames_out)
            index == output_buffer.index
        IN  /\ index \in Slots
            /\ index = total % SIZE
            /\ \A c \in Outputs : DOMAIN output_buffer.buffer[c] = Slots
            /\ total >= SIZE =>
                  \A c \in Outputs : \A i \in Slots :
                      /\ stamps[c][(index + i) % SIZE] = total - SIZE + i + 1
                      /\ output_buffer.buffer[c][(index + i) % SIZE]
                            = frames_out[total - SIZE + i + 1][c]
            /\ total < SIZE =>
                  \A c \in Outputs : \A k \in Slots :
                      /\ stamps[c][k] = (IF k < total THEN k + 1 ELSE 0)
                      /\ output_buffer.buffer[c][k]
                            = (IF k < total THEN frames_out[k + 1][c] ELSE 0)

\* the buffer has wrapped and the oldest frame it holds differs from the
\* newest one
C2_Witness ==
    /\ cb.pc = "idle"
    /\ Len(frames_out) > SIZE
    /\ output_buffer.index # 0
    /\ output_buffer.buffer[0][output_buffer.index]
         # output_buffer.buffer[0][(output_buffer.index + SIZE - 1) % SIZE]

\* a widget pushes while the message queue holds RINGBUFFER_CAPACITY messages
PushOnFull ==
    /\ ui.pc = "render"
    /\ Len(message_queue) = RINGBUFFER_CAPACITY
    /\ (input_models' # input_models \/ output_models' # output_models)

\* C3: a push onto the full message queue fails at once, the message is
\* dropped, the UI thread goes on without an error, and the channels of the
\* callback are not touched.
C3_FullPushDropsSilently ==
    [][PushOnFull =>
          /\ message_queue' = message_queue
          /\ ui'.pc = "render"
          /\ UNCHANGED <<input_channels, output_channels>>]_vars

Ids(queue) == [n \in 1..Len(queue) |-> queue[n].id]

\* the enabled flag that the first n messages of `messages` leave in channel
\* `channel` of kind `kind`
RECURSIVE EnabledAfter(_, _, _, _)
EnabledAfter(messages, kind, channel, n) ==
    IF n = 0
        THEN TRUE
        ELSE IF messages[n].kind = kind /\ messages[n].channel = channel
                 THEN messages[n].command.type = "SetEnabled"
                 ELSE EnabledAfter(messages, kind, channel, n - 1)

\* C4: the messages applied so far, followed by those still queued, are
\* the messages pushed successfully, each once and in the order of the
\* pushes (so also per channel), and every channel is in the state the
\* applied messages leave it in.
C4_AppliedOnceInOrder ==
    /\ Ids(applied \o message_queue) = [n \in 1..pushed |-> n]
    /\ \A i \in Inputs :
          input_channels[i].enabled = EnabledAfter(applied, "InputControl", i, Len(applied))
    /\ \A i \in Outputs :
          output_channels[i].enabled = EnabledAfter(applied, "OutputControl", i, Len(applied))

\* three messages applied: two for one channel, one for another in between
C4_Witness ==
    /\ Len(applied) = 3
    /\ applied[1].kind = applied[3].kind
    /\ applied[1].channel = applied[3].channel
    /\ applied[1].command # applied[3].command
    /\ applied[2].kind # applied[1].kind

C6_TransformWithoutLock ==
    ui.pc \in {"fft", "scan", "refine"} => mutex # "ui"

\* A pass whose scan found the peak 0: every bin silent
SilentPass == pass.count > 0 /\ pass.max_norm = 0

\* C7: after an analyzer pass whose peak smoothed magnitude is zero, no
\* displayed magnitude is not-a-number or infinite (the normalize step did not
\* divide by zero).
C7_SilentPassShowsNumbers ==
    SilentPass => \A i \in Slots : context.output_spectrum_magnitude[i].kind = "num"

InUnit(phase) == 0 <= phase /\ phase < One

\* C8: for a frequency inside (0,1) a process() call takes a phase of [0,1)
\* to (phase + frequency) mod 1, whatever the waveform, and the phase stays in
\* [0,1) for as long as the frequency has stayed inside (0,1).
C8_PhaseAdvancesModOne ==
    /\ freqOk => InUnit(chan.phase)
    /\ (lastOp = "process" /\ FreqInRange(chan.frequency) /\ InUnit(prevPhase))
          => chan.phase = (prevPhase + chan.frequency) % One

\* a process() call that wrapped the phase, the frequency always in (0,1)
C8_Witness ==
    /\ lastOp = "process"
    /\ freqOk
    /\ chan.phase < prevPhase

\* C9: a disabled channel returns 0.0 from every process() call and its phase
\* moves exactly as that of the twin that was never disabled.
C9_DisabledSilentPhaseRuns ==
    /\ (lastOp = "process" /\ ~chan.enabled) => ret = 0
    /\ chan.phase = twin.phase

\* a process() call on the disabled channel that moved its phase while the
\* enabled twin returned a sample other than 0.0
C9_Witness ==
    /\ lastOp = "process"
    /\ ~chan.enabled
    /\ twinRet # 0
    /\ chan.phase # prevPhase
    /\ ret = 0

\* C10: an enabled channel returns scale * sample + offset, where sample is
\* +1 / -1 for Square as the advanced phase is below the pulse width or not,
\* 2*phase-1 for RampUp, 1-2*phase for RampDown and 0 for Const.
C10_WaveformValues ==
    (lastOp = "process" /\ chan.enabled) =>
        CASE chan.wave.kind = "Square" ->
                 ret = (IF chan.phase < chan.wave.pw
                            THEN chan.scale * One + chan.offset * One
                            ELSE chan.offset * One - chan.scale * One)
          [] chan.wave.kind = "RampUp" ->
                 ret = chan.scale * (2 * chan.phase - One) + chan.offset * One
          [] chan.wave.kind = "RampDown" ->
                 ret = chan.scale * (One - 2 * chan.phase) + chan.offset * One
          [] chan.wave.kind = "Const" -> ret = chan.offset * One
          [] OTHER -> TRUE

\* a Square call above the pulse width with a scale and an offset that show
C10_Witness ==
    /\ lastOp = "process"
    /\ chan.enabled
    /\ chan.wave.kind = "Square"
    /\ 0 < chan.wave.pw
    /\ chan.phase = chan.wave.pw
    /\ chan.scale = One
    /\ chan.offset = 1
    /\ ret = One - One * One

\* the parameters of a channel: every field that a Command sets
Parameters(ch) ==
    [wave |-> ch.wave, frequency |-> ch.frequency, scale |-> ch.scale,
     offset |-> ch.offset, enabled |-> ch.enabled]

\* C11 as stated: the channel that processed frames between its commands is
\* in the same state (all fields of Channel) as the channel that took the
\* same commands and processed none.
C11_SameStateAnyFrames == lastOp = "command" => chan = still

\* C11, amended: the channel that processed frames between its commands has
\* the same waveform, frequency, scale, offset and enabled flag as the
\* channel that took the same commands and processed none, and its phase is
\* the only field in which the two may differ.
C11_SameParametersAnyFrames ==
    /\ Parameters(chan) = Parameters(still)
    /\ chan = [still EXCEPT !.phase = chan.phase]

\* a command applied after frames that moved the phase away
C11_Witness ==
    /\ lastOp = "command"
    /\ chan.phase # still.phase
    /\ Parameters(chan) # Parameters(InputChannelNew)

\* An independent run of oscillator i up to frame n (frames count from 1).
\* The channel as the first k applied messages leave it, taking only those
\* applied before frame n was processed
RECURSIVE ReplayCommands(_, _, _)
ReplayCommands(i, n, k) ==
    IF k = 0
        THEN InputChannelNew
        ELSE LET before == ReplayCommands(i, n, k - 1)
                 m == applied[k]
             IN  IF m.kind = "InputControl" /\ m.channel = i /\ log.applied_at[k] < n
                     THEN InputHandleCommand(before, m.command)
                     ELSE before

\* the phase at which frame n is evaluated: the sum, modulo 1, of the
\* frequencies in force at frames 1..n
RECURSIVE PhaseAt(_, _)
PhaseAt(i, n) ==
    IF n = 0
        THEN 0
        ELSE (PhaseAt(i, n - 1) + ReplayCommands(i, n, Len(applied)).frequency) % One

\* the value oscillator i produces at frame n
Expected(i, n) == ProcessOutput(ReplayCommands(i, n, Len(applied)), PhaseAt(i, n))

\* C12: with the identity module, between frames the capture buffer of
\* channel i holds at slot (n - 1) mod SIZE, for each of the last SIZE frames
\* n, the value that an independent run of oscillator i produces at frame n:
\* one sample per frame, in write order, none skipped, duplicated or
\* reordered.
C12_CaptureIsOscillatorSequence ==
    AtFrameBoundary =>
        \A i \in Outputs : \A n \in 1..Len(frames_out) :
            n > Len(frames_out) - SIZE =>
                output_buffer.buffer[i][(n - 1) % SIZE] = Expected(i, n)

\* the buffer has wrapped, an input channel was switched off after some
\* frames, and the two channels hold different sequences
C12_Witness ==
    /\ cb.pc = "idle"
    /\ Len(frames_out) > SIZE
    /\ \E k \in 1..Len(applied) :
          applied[k].kind = "InputControl" /\ log.applied_at[k] > 0
    /\ output_buffer.buffer[0] # output_buffer.buffer[1]
    /\ \E c \in Outputs : \E k \in Slots : output_buffer.buffer[c][k] # 0

\* C13: an invocation attempts one snapshot push for each time it brought
\* the number of frames processed to a multiple of EVENT_UPDATE_INTERVAL,
\* whatever the sizes of the blocks.
C13_SnapshotPerInterval ==
    cb.pc = "event" =>
        (IF EventDue(output_buffer.index) THEN 1 ELSE 0) = log.due

\* C15: the dt an analysis pass reads is the number of frames the callback
\* wrote since the previous pass read it (since the start for the first
\* pass), and the counter is 0 when the pass gives the buffer back.
C15_DtIsFramesSincePass ==
    /\ [][ui.pc = "scan" /\ ui'.pc = "refine"
             => ui'.dt = Len(frames_out) - log.read_at]_vars
    /\ [][ui.pc = "series" /\ ui'.pc = "render"
             => output_buffer'.counter = 0]_vars

\* a pass that is not the first, with frames written before the previous
\* pass and since
C15_Witness ==
    /\ ui.pc = "refine"
    /\ ui.dt > 0
    /\ log.read_at > ui.dt

\* the positions of an invocation after its drain loop
PastDrain == cb.pc \in {"lock", "frame", "copy", "event"}

\* C16: once the drain loop of an invocation has ended, every message
\* pushed before the invocation began has been applied, and until the
\* invocation returns no message is applied and no parameter of an
\* oscillator or output channel changes: what was queued at the start holds
\* for every frame of the block, what is pushed later for none.
C16_DrainBeforeFrames ==
    /\ [](PastDrain => Len(applied) >= log.start_pushed)
    /\ [][PastDrain =>
             /\ applied' = applied
             /\ output_channels' = output_channels
             /\ \A i \in Inputs :
                   Parameters(input_channels'[i]) = Parameters(input_channels[i])]_vars

\* frames are processed with the messages queued at the start applied and
\* a message pushed since then waiting in the queue
C16_Witness ==
    /\ cb.pc = "copy"
    /\ log.start_pushed > 0
    /\ Len(applied) = log.start_pushed
    /\ Len(message_queue) > 0

\* the output channels that add into device slot `side`
Targeting(side) ==
    {i \in Outputs : output_channels[i].enabled
                        /\ output_channels[i].output_map \in {"Both", side}}

\* the sum of volume * output over a set of output channels
RECURSIVE Routed(_, _)
Routed(set, outputs) ==
    IF set = {}
        THEN 0
        ELSE LET i == CHOOSE i \in set : TRUE
             IN  output_channels[i].volume * outputs[i] + Routed(set \ {i}, outputs)

\* a frame has been mixed into the device frame and is being captured
FrameMixed == cb.pc = "copy"

\* C17: the Left slot of a frame is the sum of volume * output over the
\* enabled output channels mapped Both or Left, the Right slot the same sum
\* over those mapped Both or Right: a disabled channel adds nothing, and
\* channels mapped to one slot add up.
C17_RoutingSums ==
    FrameMixed =>
        /\ device_frame[1] = Routed(Targeting("Left"), cb.outputs)
        /\ device_frame[2] = Routed(Targeting("Right"), cb.outputs)

\* both channels add different non-zero amounts into Left, and Right gets
\* one of them only
C17_Witness ==
    /\ FrameMixed
    /\ Targeting("Left") = Outputs
    /\ Targeting("Right") = {1}
    /\ output_channels[0].volume * cb.outputs[0] # 0
    /\ output_channels[1].volume * cb.outputs[1] # 0
    /\ output_channels[0].volume * cb.outputs[0] # output_channels[1].volume * cb.outputs[1]

\* the output channels that add into slot number `slot` of the device frame
TargetingSlot(slot) ==
    CASE slot = 1 -> Targeting("Left")
      [] slot = 2 -> Targeting("Right")
      [] OTHER    -> {}

\* C18: after a frame is processed, every slot of the device frame that no
\* enabled output channel targets holds 0.0, whatever the block held on
\* entry, also the slots beyond Left and Right of a device with more than
\* two channels.
C18_UntargetedSlotsZero ==
    FrameMixed =>
        \A slot \in DOMAIN device_frame :
            TargetingSlot(slot) = {} => device_frame[slot] = 0

\* C19: the sample captured for an output channel is the module's output
\* of that frame, whatever the channel's enabled flag, volume and map.
C19_CaptureIsRawOutput ==
    (AtFrameBoundary /\ Len(frames_out) > 0) =>
        \A c \in Outputs :
            output_buffer.buffer[c][(output_buffer.index + SIZE - 1) % SIZE]
                = MapOutputs(module_values)[c]

\* a disabled output channel and one of volume 0.0: nothing reaches the
\* device, the samples captured are not 0.0
C19_Witness ==
    /\ AtFrameBoundary
    /\ Len(frames_out) > 0
    /\ ~output_channels[0].enabled
    /\ output_channels[1].enabled
    /\ output_channels[1].volume = 0
    /\ output_channels[1].output_map = "Right"
    /\ device_frame[1] = 0
    /\ device_frame[2] = 0
    /\ \A c \in Outputs :
          output_buffer.buffer[c][(output_buffer.index + SIZE - 1) % SIZE] # 0

\* the step that ends an invocation of the callback
InvocationEnds == cb.pc = "event" /\ cb'.pc = "idle"

\* C20: at the end of an invocation a snapshot of the input channels is
\* pushed exactly when the write index is a multiple of the interval; when
\* the event queue is full the snapshot is dropped and the queue is left as
\* it was; in both cases the invocation ends in the same state: channels,
\* module and capture buffer untouched, the callback idle, the lock free.
C20_FullEventQueueDropsSnapshot ==
    [][InvocationEnds =>
          /\ event_queue' =
                 IF output_buffer.index % EVENT_UPDATE_INTERVAL = 0
                    /\ Len(event_queue) < RINGBUFFER_CAPACITY
                     THEN Append(event_queue, input_channels)
                     ELSE event_queue
          /\ input_channels' = input_channels
          /\ output_channels' = output_channels
          /\ module_values' = module_values
          /\ output_buffer' = output_buffer
          /\ message_queue' = message_queue
          /\ cb' = CbIdle
          /\ mutex' = "free"]_vars

\* an invocation has ended on a multiple of the interval with the event
\* queue full: the queue holds the two older snapshots, not the new one
C20_Witness ==
    /\ log.failed
    /\ cb = CbIdle
    /\ mutex = "free"
    /\ Len(event_queue) = RINGBUFFER_CAPACITY
    /\ event_queue[RINGBUFFER_CAPACITY] # input_channels

\* the mirror of every oscillator shows the parameters the engine uses
Mirrored == \A i \in Inputs : Parameters(input_models[i]) = Parameters(input_channels[i])

\* C14: once the UI thread has stopped issuing commands, with the callback
\* and update() both running for ever, the mirrored parameters of every
\* oscillator become equal to the engine's and stay equal, whatever the
\* sizes of the blocks the device asks for.
C14_MirrorSettles == <>[]Mirrored

\* the step of the analysis bench that is a pass
PassTaken == pass'.count = pass.count + 1

\* unwrap candidate k of a pass: (dp + 2 PI k) / (2 PI dt)
UnwrapCandidate(dp, dt, k) == Freq((dp + 8 * k) * SIZE, 8 * dt * SIZE)

\* C21: a pass with dt > 0 leaves as frequency estimate one of the unwrap
\* candidates (phase_delta + 2 PI k) / (2 PI dt) with k >= 0 (no candidate
\* beyond k = dt + 1 is ever needed, as phase_delta > -2 PI and
\* freq_coarse < 1).
C21_EstimateIsCandidate ==
    [][(PassTaken /\ output_buffer.counter > 0) =>
          LET scan == Peak(context, output_buffer)
              dt   == output_buffer.counter
          IN  \E k \in 0..(dt + 1) :
                  context'.output_buffer_freq_est
                      = UnwrapCandidate(scan.max_norm_phase_diff, dt, k)]_vars

\* C22: the unwrap search terminates, for every dt >= 1, every peak index
\* and every phase difference inside (-2 PI, 2 PI).
C22_SearchTerminates == <>(search.pc = "done")

\* C23: a pass that finds dt = 0 (no frame written since the previous pass)
\* leaves the frequency estimate exactly as the previous pass left it.
C23_NoFramesKeepsEstimate ==
    [][(PassTaken /\ output_buffer.counter = 0) =>
          context'.output_buffer_freq_est = context.output_buffer_freq_est]_vars

\* the second of two passes found no new frame, and the estimate of the
\* first, which is not the initial 0.0, is still there
C23_Witness ==
    /\ pass.count = 2
    /\ pass.dt = 0
    /\ context.output_buffer_freq_est.num > 0

\* the SIZE samples of the selected channel from slot `first` on, as the
\* capture buffer holds them after a pass
WindowFrom(first) ==
    [i \in Slots |-> output_buffer'.buffer[context.output_channel][(first + i) % SIZE]]

\* a number of cycles as a number of samples of the window, rounded:
\* round(cycles * SIZE) for cycles = num / den >= 0
InSamples(num, den) == (2 * num * SIZE + den) \div (2 * den)

\* C24: each pass advances the alignment by freq_estimate * dt cycles,
\* wrapped into one turn, so that a pass with dt = 0 does not move it; in
\* Following mode the window displayed starts round(alignment * SIZE)
\* samples before the write position, modulo SIZE.  (The alignment is the
\* field output_buffer_phase, which counts it in samples.)
C24_AlignmentFollowsElapsed ==
    [][PassTaken =>
          LET est == context'.output_buffer_freq_est
              dt  == output_buffer.counter
          IN  /\ est.num > 0 =>
                     context'.output_buffer_phase
                         = (context.output_buffer_phase
                            + InSamples(est.num * dt, est.den)) % SIZE
              /\ dt = 0 => context'.output_buffer_phase = context.output_buffer_phase
              /\ context.tracking = "Following" =>
                     context'.output_buffer_time_series
                         = WindowFrom((output_buffer.index + SIZE
                                       - context'.output_buffer_phase) % SIZE)]_vars

\* C25: a pass that ends with freq_estimate <= 0 does not advance the
\* alignment, and the window it displays in Following mode starts at the
\* write index: it is the window Static mode displays.
C25_NoEstimateShowsWriteBoundary ==
    [][(PassTaken /\ context'.output_buffer_freq_est.num <= 0) =>
          /\ context'.output_buffer_phase = context.output_buffer_phase
          /\ context.tracking = "Following" =>
                 context'.output_buffer_time_series = WindowFrom(output_buffer.index)]_vars

\* a step of the UI thread
UiStep == ui' # ui

\* a step that changes a captured sample or the write index
CaptureWritten ==
    \/ output_buffer'.buffer # output_buffer.buffer
    \/ output_buffer'.index # output_buffer.index

\* C26: no step of the UI thread, so no step of an analysis pass, changes a
\* captured sample or the write index: all it does to the capture buffer is
\* set the counter to 0; samples and write index change only in a step of
\* the audio callback that stores a frame, taken while it holds the lock.
C26_AnalyzerLeavesSamples ==
    /\ [][UiStep => /\ ~CaptureWritten
                    /\ output_buffer'.counter \in {output_buffer.counter, 0}]_vars
    /\ [][CaptureWritten => /\ mutex = "audio"
                            /\ cb.pc = "copy"
                            /\ ui' = ui]_vars

\* a pass has just set the counter to 0 over a buffer that holds samples,
\* with the write index inside the buffer
C26_Witness ==
    /\ ui.pc = "refine"
    /\ ui.dt > 0
    /\ output_buffer.counter = 0
    /\ output_buffer.index # 0
    /\ \E c \in Outputs, k \in Slots : output_buffer.buffer[c][k] # 0

\* the field a command names, and the value it carries for it
FieldOf(command) ==
    CASE command.type = "SetWave"      -> "wave"
      [] command.type = "SetFrequency" -> "frequency"
      [] command.type = "SetScale"     -> "scale"
      [] command.type = "SetOffset"    -> "offset"
      [] command.type = "SetMap"       -> "output_map"
      [] command.type = "SetVolume"    -> "volume"
      [] OTHER                         -> "enabled"

ValueOf(command) ==
    CASE command.type = "SetWave"     -> command.wave
      [] command.type = "SetMap"      -> command.map
      [] command.type = "SetEnabled"  -> TRUE
      [] command.type = "SetDisabled" -> FALSE
      [] OTHER                        -> command.value

\* channel i of `after` is channel i of `before` with the field the command
\* names holding the command's value, and the other channels are the same
OnlyNamedField(before, after, i, command) ==
    /\ after[i][FieldOf(command)] = ValueOf(command)
    /\ \A f \in DOMAIN before[i] \ {FieldOf(command)} : after[i][f] = before[i][f]
    /\ \A j \in DOMAIN before \ {i} : after[j] = before[j]

\* the step in which the callback applies the message at the head of the
\* queue
MessageApplied == cb.pc = "drain" /\ message_queue' # message_queue

\* C27: a command sets the field it names, on the channel it addresses, to
\* the value it carries, whatever commands came before (the last write
\* wins); phase, the other fields and every other channel, oscillator or
\* output, stay as they are; and the same command applied a second time in
\* a row changes nothing.
C27_CommandSetsOneField ==
    [][MessageApplied =>
          LET m == Head(message_queue)
          IN  /\ m.kind = "InputControl" =>
                     /\ OnlyNamedField(input_channels, input_channels', m.channel, m.command)
                     /\ output_channels' = output_channels
              /\ m.kind = "OutputControl" =>
                     /\ OnlyNamedField(output_channels, output_channels', m.channel, m.command)
                     /\ input_channels' = input_channels
              /\ (applied # <<>> /\ applied[Len(applied)] = m) =>
                     /\ input_channels' = input_channels
                     /\ output_channels' = output_channels]_vars

\* two SetFrequency commands with different values were applied to an
\* oscillator whose phase is not 0.0 and whose other fields are not the
\* defaults: the frequency is that of the second
C27_Witness ==
    /\ Len(applied) = 2
    /\ \A n \in 1..2 : /\ applied[n].kind = "InputControl"
                        /\ applied[n].channel = 1
                        /\ applied[n].command.type = "SetFrequency"
    /\ applied[1].command.value # applied[2].command.value
    /\ input_channels[1].frequency = applied[2].command.value
    /\ input_channels[1].phase # 0
    /\ ~input_channels[1].enabled

\* C28: in the whole system every oscillator's frequency is inside
\* [0, 0.5], so below 1, and every oscillator's phase is inside [0, 1), in
\* every reachable state.
C28_FrequencyAndPhaseInRange ==
    \A i \in Inputs :
        /\ 0 <= input_channels[i].frequency
        /\ input_channels[i].frequency <= HalfDen
        /\ 0 <= input_channels[i].phase
        /\ input_channels[i].phase < One

\* a slider was moved to 0.5, the top of its range, before the first frame,
\* and at the second frame the phase reached 1.0 and was wrapped to 0.0
C28_Witness ==
    \E i \in Inputs :
        /\ Len(applied) = 1
        /\ applied[1].command.type = "SetFrequency"
        /\ log.applied_at[1] = 0
        /\ input_channels[i].frequency = HalfDen
        /\ Len(frames_out) = 2
        /\ AtFrameBoundary
        /\ input_channels[i].phase = 0

====
